---- MODULE Spec2Model ----
(***************************************************************************)
(* Model of the knative-deployer command (cmd/main.go and its older        *)
(* near-duplicate): main and the Deploy flow (runDeploy with its Builder,  *)
(* the Readiness Poller waitForReady and the termination message), the     *)
(* Observe flow (runObserve) and the Status Interpreter                    *)
(* (parseKnativeStatus), run against a resource store that holds the       *)
(* Knative Service and the tracked KDexFunction.                           *)
(*                                                                         *)
(* Strings are TLA+ strings.  A missing key / JSON null is the reserved    *)
(* value Nil, which is none of the strings the model otherwise uses.       *)
(***************************************************************************)
EXTENDS Integers, Sequences, FiniteSets, TLC

VARIABLES
    variant,      \* which of the two source files is running
    cfg,          \* EnvConfig as read by LoadEnv from the environment
    ks,           \* the Knative Service in the store (live status)
    kf,           \* the tracked KDexFunction in the store
    obs,          \* per Observe invocation: position and locals of runObserve
    passes,       \* number of Observe invocations started so far
    liveChanges,  \* number of changes the platform made to the Service
    settled,      \* history: an undisturbed pass has completed on this live status
    raced,        \* history: a pass that overlapped another one has patched
    poll,         \* waitForReady: position, result and the reads it made
    timer,        \* waitForReady's channels: timeout, ticker.C and ctx.Done()
    dep,          \* the Deploy invocation: os.Args, position and result of runDeploy
    applied,      \* the Service document the store holds from the last apply
    sink,         \* content of the termination-message file
    interp,       \* a call of parseKnativeStatus: its argument and its result
    build,        \* the Builder's env forwarding: its inputs and the list it built
    storeOps      \* history: the requests the two flows have sent to the store

observeVars == <<kf, obs, passes, settled, raced>>
pollVars == <<poll, timer>>
deployVars == <<dep, applied, sink>>
pureVars == <<interp, build>>
vars == <<variant, cfg, ks, kf, obs, passes, liveChanges, settled, raced, poll, timer,
          dep, applied, sink, interp, build, storeOps>>

----------------------------------------------------------------------------
(* Bounds *)

MaxPasses == 4        \* Observe invocations per behaviour
MaxLiveChanges == 1   \* status changes made by the platform per behaviour
MaxReads == 3         \* poll reads of one waitForReady call
MaxConds == 2         \* entries of a status.conditions list
MaxEnvLen == 5        \* characters of a FORWARDED_ENV_VARS value

Observers == {1, 2}

Nil == "\\nil"

----------------------------------------------------------------------------
(* Values *)

Variants == {"main", "part_000"}

HasPrefix(s, prefix) ==
    /\ Len(s) >= Len(prefix)
    /\ SubSeq(s, 1, Len(prefix)) = prefix

\* unstructured.NestedString: the string at the key, "" when the key is missing
NestedString(v) == IF v = Nil THEN "" ELSE v

\* fmt.Sprintf("%v", x) of a string or of a nil interface value
Stringify(v) == IF v = Nil THEN "<nil>" ELSE v

\* One entry of status.conditions.  An entry that is not a map has isMap FALSE.
Junk == [isMap |-> FALSE, type |-> Nil, status |-> Nil, message |-> Nil]

Cond(t, s, m) == [isMap |-> TRUE, type |-> t, status |-> s, message |-> m]

\* The Service object as a Get returns it: the status block may be missing,
\* and inside it the url and the conditions list may be missing.
Doc(hasStatus, url, hasConditions, conditions) ==
    [hasStatus |-> hasStatus, url |-> url,
     hasConditions |-> hasConditions, conditions |-> conditions]

NoStatusDoc == Doc(FALSE, Nil, FALSE, <<>>)

----------------------------------------------------------------------------
(* Status Interpreter *)

RECURSIVE scanConditions(_, _)
scanConditions(conditions, url) ==
    IF conditions = <<>>
    THEN [isReady |-> FALSE, msg |-> "Ready condition not found", url |-> url]
    ELSE LET c == Head(conditions) IN
         IF ~c.isMap THEN scanConditions(Tail(conditions), url)
         ELSE IF c.type = "Ready"
              THEN IF c.status = "True"
                   THEN [isReady |-> TRUE, msg |-> "", url |-> url]
                   ELSE [isReady |-> FALSE, msg |-> Stringify(c.message), url |-> url]
              ELSE scanConditions(Tail(conditions), url)

\* mutant: the url is read after the conditions, so "No conditions" loses it
parseKnativeStatus_noCondsDropsUrl(obj) ==
    IF ~obj.hasStatus
    THEN [isReady |-> FALSE, msg |-> "No status", url |-> ""]
    ELSE LET url == NestedString(obj.url) IN
         IF ~obj.hasConditions
         THEN [isReady |-> FALSE, msg |-> "No conditions", url |-> ""]
         ELSE scanConditions(obj.conditions, url)

\* mutant: the loop does not return at the first Ready entry; the last one decides
parseKnativeStatus_lastReady(obj) ==
    IF ~obj.hasStatus
    THEN [isReady |-> FALSE, msg |-> "No status", url |-> ""]
    ELSE LET url == NestedString(obj.url)
             cs == obj.conditions
             R == {i \in DOMAIN cs : cs[i].isMap /\ cs[i].type = "Ready"}
         IN  IF ~obj.hasConditions
             THEN [isReady |-> FALSE, msg |-> "No conditions", url |-> url]
             ELSE IF R = {}
             THEN [isReady |-> FALSE, msg |-> "Ready condition not found", url |-> url]
             ELSE LET c == cs[CHOOSE i \in R : \A j \in R : j <= i] IN
                  IF c.status = "True"
                  THEN [isReady |-> TRUE, msg |-> "", url |-> url]
                  ELSE [isReady |-> FALSE, msg |-> Stringify(c.message), url |-> url]

parseKnativeStatus(obj) ==
    IF ~obj.hasStatus
    THEN [isReady |-> FALSE, msg |-> "No status", url |-> ""]
    ELSE LET url == NestedString(obj.url) IN
         IF ~obj.hasConditions
         THEN [isReady |-> FALSE, msg |-> "No conditions", url |-> url]
         ELSE scanConditions(obj.conditions, url)

----------------------------------------------------------------------------
(* Status Reconciler: the decision taken inside runObserve *)

\* detail of the transition to Ready
readyDetail(v, url, c) ==
    IF v = "main" THEN "Ready: " \o url \o c.FunctionBasePath
    ELSE "Ready: " \o url

\* mutant: the degrade detail is the bare reason, without the "NotReady: " prefix
notReadyDetail_noPrefix(v, msg, url, c) ==
    IF v = "main" THEN url \o c.FunctionBasePath ELSE msg

\* detail of the degrade to FunctionDeployed
notReadyDetail(v, msg, url, c) ==
    IF v = "main" THEN "NotReady: " \o url \o c.FunctionBasePath
    ELSE "NotReady: " \o msg

\* mutant: a change of state alone does not set needsUpdate
statusTransition_urlOnly(v, c, isReady, msg, url, currentState, currentURL) ==
    IF isReady
    THEN [needsUpdate |-> currentURL # url,
          newState    |-> IF currentState # "Ready" THEN "Ready" ELSE currentState,
          newDetail   |-> IF currentState # "Ready" THEN readyDetail(v, url, c) ELSE ""]
    ELSE IF currentState = "Ready"
         THEN [needsUpdate |-> TRUE,
               newState    |-> "FunctionDeployed",
               newDetail   |-> notReadyDetail(v, msg, url, c)]
         ELSE [needsUpdate |-> FALSE, newState |-> currentState, newDetail |-> ""]

\* mutant: every not-ready observation is reported, whatever the tracked state
statusTransition_flap(v, c, isReady, msg, url, currentState, currentURL) ==
    IF isReady
    THEN [needsUpdate |-> (currentState # "Ready") \/ (currentURL # url),
          newState    |-> IF currentState # "Ready" THEN "Ready" ELSE currentState,
          newDetail   |-> IF currentState # "Ready" THEN readyDetail(v, url, c) ELSE ""]
    ELSE [needsUpdate |-> TRUE,
          newState    |-> "FunctionDeployed",
          newDetail   |-> notReadyDetail(v, msg, url, c)]

\* mutant: needsUpdate starts as true
statusTransition_always(v, c, isReady, msg, url, currentState, currentURL) ==
    IF isReady
    THEN [needsUpdate |-> TRUE,
          newState    |-> IF currentState # "Ready" THEN "Ready" ELSE currentState,
          newDetail   |-> IF currentState # "Ready" THEN readyDetail(v, url, c) ELSE ""]
    ELSE IF currentState = "Ready"
         THEN [needsUpdate |-> TRUE,
               newState    |-> "FunctionDeployed",
               newDetail   |-> notReadyDetail(v, msg, url, c)]
         ELSE [needsUpdate |-> TRUE, newState |-> currentState, newDetail |-> ""]

\* mutant: the ready branch syncs the url but never raises the state to "Ready"
statusTransition_keepState(v, c, isReady, msg, url, currentState, currentURL) ==
    IF isReady
    THEN [needsUpdate |-> currentURL # url,
          newState    |-> currentState,
          newDetail   |-> ""]
    ELSE IF currentState = "Ready"
         THEN [needsUpdate |-> TRUE,
               newState    |-> "FunctionDeployed",
               newDetail   |-> notReadyDetail(v, msg, url, c)]
         ELSE [needsUpdate |-> FALSE, newState |-> currentState, newDetail |-> ""]

\* mutant: a not-ready observation resets every state other than "Ready" too
statusTransition_resetReserved(v, c, isReady, msg, url, currentState, currentURL) ==
    IF isReady
    THEN [needsUpdate |-> (currentState # "Ready") \/ (currentURL # url),
          newState    |-> IF currentState # "Ready" THEN "Ready" ELSE currentState,
          newDetail   |-> IF currentState # "Ready" THEN readyDetail(v, url, c) ELSE ""]
    ELSE IF currentState = "Ready"
         THEN [needsUpdate |-> TRUE,
               newState    |-> "FunctionDeployed",
               newDetail   |-> notReadyDetail(v, msg, url, c)]
         ELSE [needsUpdate |-> currentState \notin {"", "FunctionDeployed"},
               newState    |-> "",
               newDetail   |-> ""]

statusTransition(v, c, isReady, msg, url, currentState, currentURL) ==
    IF isReady
    THEN [needsUpdate |-> (currentState # "Ready") \/ (currentURL # url),
          newState    |-> IF currentState # "Ready" THEN "Ready" ELSE currentState,
          newDetail   |-> IF currentState # "Ready" THEN readyDetail(v, url, c) ELSE ""]
    ELSE IF currentState = "Ready"
         THEN [needsUpdate |-> TRUE,
               newState    |-> "FunctionDeployed",
               newDetail   |-> notReadyDetail(v, msg, url, c)]
         ELSE [needsUpdate |-> FALSE, newState |-> currentState, newDetail |-> ""]

\* mutant: the patch body leaves the url out
specPatch_noUrl(newState, url, newDetail) ==
    IF newDetail # ""
    THEN [f \in {"status.state", "status.detail"} |->
            IF f = "status.state" THEN newState ELSE newDetail]
    ELSE [f \in {"status.state"} |-> newState]

\* mutant: the patch body always carries the detail, empty or not
specPatch_alwaysDetail(newState, url, newDetail) ==
    [f \in {"status.state", "status.url", "status.detail"} |->
        CASE f = "status.state"  -> newState
          [] f = "status.url"    -> url
          [] f = "status.detail" -> newDetail]

\* mutant: an empty url is left out of the body, as with omitempty
specPatch_omitEmptyUrl(newState, url, newDetail) ==
    LET fields == {"status.state"}
                    \cup (IF url # "" THEN {"status.url"} ELSE {})
                    \cup (IF newDetail # "" THEN {"status.detail"} ELSE {})
    IN  [f \in fields |->
            CASE f = "status.state"  -> newState
              [] f = "status.url"    -> url
              [] f = "status.detail" -> newDetail]

\* the merge patch body, as a map from field path to value
specPatch(newState, url, newDetail) ==
    IF newDetail # ""
    THEN [f \in {"status.state", "status.url", "status.detail"} |->
            CASE f = "status.state"  -> newState
              [] f = "status.url"    -> url
              [] f = "status.detail" -> newDetail]
    ELSE [f \in {"status.state", "status.url"} |->
            IF f = "status.state" THEN newState ELSE url]

\* mutant: the body replaces the object (an update instead of a merge patch)
MergePatch_replace(object, patch) ==
    [f \in DOMAIN object |-> IF f \in DOMAIN patch THEN patch[f] ELSE Nil]

\* JSON merge patch of the tracked object: the fields of the body replace the
\* object's, every other field keeps its value
MergePatch(object, patch) ==
    [f \in DOMAIN object |-> IF f \in DOMAIN patch THEN patch[f] ELSE object[f]]

----------------------------------------------------------------------------
(* Configuration *)

NoError == ""

\* os.Args of an invocation; the subcommand is os.Args[1] when present
ObserveArgs == <<"knative-deployer", "observe">>

LoadEnv(c, args) ==
    IF c.FunctionName = "" THEN "FUNCTION_NAME is required"
    ELSE IF c.FunctionNamespace = "" THEN "FUNCTION_NAMESPACE is required"
    ELSE IF c.FunctionImage = "" /\ Len(args) > 1 /\ args[2] = "deploy"
         THEN "FUNCTION_IMAGE is required for deploy"
    ELSE NoError

\* main: exit status of an invocation that returned err
ExitCode(err) == IF err # NoError THEN 1 ELSE 0

----------------------------------------------------------------------------
(* The resource store *)

Urls == {"http://x"}

\* conditions lists the platform writes, one per outcome of the interpreter
ObserveConditions ==
    { <<Cond("Ready", "True", Nil)>>,
      <<Cond("Ready", "False", "RevisionFailed")>>,
      <<Junk, Cond("ConfigurationsReady", "True", Nil)>> }

ObserveDocs ==
    {NoStatusDoc}
      \cup {Doc(TRUE, u, FALSE, <<>>) : u \in Urls \cup {Nil}}
      \cup {Doc(TRUE, u, TRUE, cs) : u \in Urls \cup {Nil}, cs \in ObserveConditions}

ServiceAbsent == [exists |-> FALSE, doc |-> NoStatusDoc]

ServiceStates == {ServiceAbsent} \cup {[exists |-> TRUE, doc |-> d] : d \in ObserveDocs}

TrackedPaths ==
    {"metadata", "spec", "status.state", "status.url", "status.detail",
     "status.conditions"}

TrackedObject(state, url) ==
    [f \in TrackedPaths |->
        CASE f = "metadata"          -> "name=myfunc"
          [] f = "spec"              -> "spec-v1"
          [] f = "status.state"      -> state
          [] f = "status.url"        -> url
          [] f = "status.detail"     -> "Created"
          [] f = "status.conditions" -> "conditions-v1"]

TrackedAbsent == [exists |-> FALSE, object |-> TrackedObject(Nil, Nil)]

TrackedStates ==
    {TrackedAbsent} \cup
    {[exists |-> TRUE, object |-> TrackedObject(s, u)] :
        s \in {Nil, "FunctionDeployed", "Ready", "Pending"},
        u \in {Nil, "http://y"}}

\* a request to the store: the flow that sent it, its verb, and the resource
\* of the client it was sent through (knativeServiceGVR or kdexFunctionGVR)
StoreOp(flow, verb, resource) == [flow |-> flow, verb |-> verb, resource |-> resource]

\* outcomes of a Get: the object, not-found, or any other error
GetOutcomes(exists) == IF exists THEN {"ok", "error"} ELSE {"notfound", "error"}

----------------------------------------------------------------------------
(* runObserve *)

EmptyPatch == [f \in {} |-> ""]

FreshObserve ==
    [pc |-> "idle", err |-> NoError,
     ksGet |-> "", kfGet |-> "", kfReads |-> 0, kfPatches |-> 0,
     isReady |-> FALSE, msg |-> "", url |-> "",
     currentState |-> "", currentURL |-> "",
     needsUpdate |-> FALSE, newState |-> "", newDetail |-> "",
     patch |-> EmptyPatch,
     alone |-> FALSE, startedSettled |-> FALSE]

Running(p) == obs[p].pc \notin {"idle", "done"}

\* An invocation that has returned is a process that has exited: its locals
\* are observable in the state it returns in and are gone at the next step.
Exited(o) == [q \in Observers |-> IF o[q].pc = "done" THEN FreshObserve ELSE o[q]]

\* history: the invocations under way are no longer running undisturbed
Disturb(o) == [q \in Observers |->
                 IF o[q].pc \notin {"idle", "done"} THEN [o[q] EXCEPT !.alone = FALSE]
                 ELSE o[q]]

\* mutant: not-found is not short-circuited; the pass goes on with no status
observeKs_notFoundContinues(me, r, doc) ==
    CASE r = "notfound" ->
           [me EXCEPT !.pc = "getKf", !.ksGet = r, !.msg = "No status"]
      [] r = "error" ->
           [me EXCEPT !.pc = "done", !.ksGet = r, !.err = "failed to get knative service"]
      [] r = "ok" ->
           LET i == parseKnativeStatus(doc) IN
           [me EXCEPT !.pc = "getKf", !.ksGet = r,
                      !.isReady = i.isReady, !.msg = i.msg, !.url = i.url]

\* what runObserve does with the result r of its Get of the Service
observeKs(me, r, doc) ==
    CASE r = "notfound" -> [me EXCEPT !.pc = "done", !.ksGet = r]
      [] r = "error" ->
           [me EXCEPT !.pc = "done", !.ksGet = r, !.err = "failed to get knative service"]
      [] r = "ok" ->
           LET i == parseKnativeStatus(doc) IN
           [me EXCEPT !.pc = "getKf", !.ksGet = r,
                      !.isReady = i.isReady, !.msg = i.msg, !.url = i.url]

\* LoadEnv, getDynamicClient, then 1. Get Knative Service Status and interpret
\* it.  The first two touch nothing outside the process, so the invocation
\* becomes visible to the others at its read of the Service.
ObserveStart(p) ==
    /\ ~Running(p)
    /\ passes < MaxPasses
    /\ passes' = passes + 1
    /\ \E clientOk \in BOOLEAN, r \in GetOutcomes(ks.exists) :
         LET envErr == LoadEnv(cfg, ObserveArgs)
             others == \E q \in Observers \ {p} : Running(q)
             me == [FreshObserve EXCEPT !.alone = ~others, !.startedSettled = settled]
         IN  /\ obs' = [Disturb(Exited(obs)) EXCEPT ![p] =
                IF envErr # NoError
                THEN [me EXCEPT !.pc = "done", !.err = envErr]
                ELSE IF ~clientOk
                THEN [me EXCEPT !.pc = "done", !.err = "failed to get in-cluster config"]
                ELSE observeKs(me, r, ks.doc)]
             /\ storeOps' = IF envErr # NoError \/ ~clientOk THEN storeOps
                             ELSE storeOps \cup {StoreOp("Observe", "get", "Service")}
    /\ UNCHANGED <<variant, cfg, ks, kf, liveChanges, settled, raced, pollVars, deployVars, pureVars>>

\* mutant: a tracked object that is not found ends the pass without an error
ObserveGetKf_notFoundOk(p) ==
    /\ obs[p].pc = "getKf"
    /\ \E r \in GetOutcomes(kf.exists) :
         IF r # "ok"
         THEN /\ obs' = [Exited(obs) EXCEPT ![p] =
                    [@ EXCEPT !.pc = "done", !.kfGet = r, !.kfReads = @ + 1,
                              !.err = IF r = "notfound" THEN NoError
                                      ELSE "failed to get kdex function"]]
              /\ UNCHANGED settled
         ELSE LET currentState == NestedString(kf.object["status.state"])
                  currentURL == NestedString(kf.object["status.url"])
                  d == statusTransition(variant, cfg, obs[p].isReady, obs[p].msg,
                                        obs[p].url, currentState, currentURL)
              IN  /\ obs' = [Exited(obs) EXCEPT ![p] =
                        [@ EXCEPT !.pc = IF d.needsUpdate THEN "patch" ELSE "done",
                                  !.kfGet = r, !.kfReads = @ + 1,
                                  !.currentState = currentState,
                                  !.currentURL = currentURL,
                                  !.needsUpdate = d.needsUpdate,
                                  !.newState = d.newState,
                                  !.newDetail = d.newDetail]]
                  /\ settled' = IF ~d.needsUpdate /\ obs[p].alone THEN TRUE ELSE settled
    /\ UNCHANGED <<variant, cfg, ks, kf, passes, liveChanges, raced, pollVars, deployVars, pureVars>>
    /\ storeOps' = storeOps \cup {StoreOp("Observe", "get", "KDexFunction")}

\* 2. Get KDexFunction, 3. decide whether the status needs an update
ObserveGetKf(p) ==
    /\ obs[p].pc = "getKf"
    /\ \E r \in GetOutcomes(kf.exists) :
         IF r # "ok"
         THEN /\ obs' = [Exited(obs) EXCEPT ![p] =
                    [@ EXCEPT !.pc = "done", !.kfGet = r, !.kfReads = @ + 1,
                              !.err = "failed to get kdex function"]]
              /\ UNCHANGED settled
         ELSE LET currentState == NestedString(kf.object["status.state"])
                  currentURL == NestedString(kf.object["status.url"])
                  d == statusTransition(variant, cfg, obs[p].isReady, obs[p].msg,
                                        obs[p].url, currentState, currentURL)
              IN  /\ obs' = [Exited(obs) EXCEPT ![p] =
                        [@ EXCEPT !.pc = IF d.needsUpdate THEN "patch" ELSE "done",
                                  !.kfGet = r, !.kfReads = @ + 1,
                                  !.currentState = currentState,
                                  !.currentURL = currentURL,
                                  !.needsUpdate = d.needsUpdate,
                                  !.newState = d.newState,
                                  !.newDetail = d.newDetail]]
                  /\ settled' = IF ~d.needsUpdate /\ obs[p].alone THEN TRUE ELSE settled
    /\ UNCHANGED <<variant, cfg, ks, kf, passes, liveChanges, raced, pollVars, deployVars, pureVars>>
    /\ storeOps' = storeOps \cup {StoreOp("Observe", "get", "KDexFunction")}

\* mutant: a pass that degrades the tracked state also deletes the Service
ObservePatch_deletesService(p) ==
    /\ obs[p].pc = "patch"
    /\ LET body == specPatch(obs[p].newState, obs[p].url, obs[p].newDetail) IN
       \E r \in GetOutcomes(kf.exists) :
         IF r = "ok"
         THEN /\ kf' = [kf EXCEPT !.object = MergePatch(@, body)]
              /\ obs' = [Exited(obs) EXCEPT ![p] =
                    [@ EXCEPT !.pc = "done", !.kfPatches = @ + 1, !.patch = body]]
              /\ settled' = obs[p].alone
              /\ raced' = (raced \/ ~obs[p].alone)
         ELSE /\ obs' = [Exited(obs) EXCEPT ![p] =
                    [@ EXCEPT !.pc = "done", !.kfPatches = @ + 1, !.patch = body,
                              !.err = "failed to patch kdex function status"]]
              /\ UNCHANGED <<kf, settled, raced>>
    /\ ks' = IF obs[p].newState = "FunctionDeployed" THEN ServiceAbsent ELSE ks
    /\ UNCHANGED <<variant, cfg, passes, liveChanges, pollVars, deployVars, pureVars>>
    /\ storeOps' = storeOps \cup {StoreOp("Observe", "patch", "KDexFunction")}

\* the merge patch of the status sub-resource
ObservePatch(p) ==
    /\ obs[p].pc = "patch"
    /\ LET body == specPatch(obs[p].newState, obs[p].url, obs[p].newDetail) IN
       \E r \in GetOutcomes(kf.exists) :
         IF r = "ok"
         THEN /\ kf' = [kf EXCEPT !.object = MergePatch(@, body)]
              /\ obs' = [Exited(obs) EXCEPT ![p] =
                    [@ EXCEPT !.pc = "done", !.kfPatches = @ + 1, !.patch = body]]
              /\ settled' = obs[p].alone
              /\ raced' = (raced \/ ~obs[p].alone)
         ELSE /\ obs' = [Exited(obs) EXCEPT ![p] =
                    [@ EXCEPT !.pc = "done", !.kfPatches = @ + 1, !.patch = body,
                              !.err = "failed to patch kdex function status"]]
              /\ UNCHANGED <<kf, settled, raced>>
    /\ UNCHANGED <<variant, cfg, ks, passes, liveChanges, pollVars, deployVars, pureVars>>
    /\ storeOps' = storeOps \cup {StoreOp("Observe", "patch", "KDexFunction")}

\* the platform (or an operator) changes or deletes the Service
LiveChange ==
    /\ liveChanges < MaxLiveChanges
    /\ liveChanges' = liveChanges + 1
    /\ \E s \in ServiceStates \ {ks} : ks' = s
    /\ obs' = [q \in Observers |-> [Disturb(Exited(obs))[q] EXCEPT !.startedSettled = FALSE]]
    /\ settled' = FALSE
    /\ UNCHANGED <<variant, cfg, kf, passes, raced, pollVars, deployVars, pureVars, storeOps>>

----------------------------------------------------------------------------
(* waitForReady *)

ErrTimeout == "timeout waiting for service readiness"
ErrCanceled == "context canceled"
ErrNotFound == "services.serving.knative.dev not found"
ErrGet == "services.serving.knative.dev is forbidden"

IdlePoll ==
    [pc |-> "idle", ctx |-> "background", url |-> "", err |-> NoError, gets |-> <<>>]

IdleTimer == [timeoutFired |-> FALSE, tickPending |-> FALSE, ctxDone |-> FALSE]

\* what one read of the loop was: an error, or the object and its interpretation
ReadOutcomes(exists, doc, ctxDone) ==
    (IF exists
     THEN {[kind |-> IF parseKnativeStatus(doc).isReady THEN "ready" ELSE "notready",
            url |-> parseKnativeStatus(doc).url, err |-> NoError, obj |-> doc]}
     ELSE {[kind |-> "notfound", url |-> "", err |-> ErrNotFound, obj |-> NoStatusDoc]})
    \cup {[kind |-> "error", url |-> "", err |-> ErrGet, obj |-> NoStatusDoc]}
    \cup (IF ctxDone
          THEN {[kind |-> "error", url |-> "", err |-> ErrCanceled, obj |-> NoStatusDoc]}
          ELSE {})

\* mutant: every read error, not-found included, is returned
tickBody_notFoundFatal(w, r) ==
    LET seen == [w EXCEPT !.gets = Append(@, r)] IN
    CASE r.kind \in {"notfound", "error"} ->
           [seen EXCEPT !.pc = "done", !.url = "", !.err = r.err]
      [] r.kind = "ready"    -> [seen EXCEPT !.pc = "done", !.url = r.url, !.err = NoError]
      [] r.kind = "notready" -> [seen EXCEPT !.pc = "select"]

\* mutant: the result of the interpreter is not tested; any object read is returned
tickBody_notReadyReturns(w, r) ==
    LET seen == [w EXCEPT !.gets = Append(@, r)] IN
    CASE r.kind = "notfound" -> [seen EXCEPT !.pc = "select"]
      [] r.kind = "error"    -> [seen EXCEPT !.pc = "done", !.url = "", !.err = r.err]
      [] r.kind \in {"ready", "notready"} ->
           [seen EXCEPT !.pc = "done", !.url = r.url, !.err = NoError]

\* mutant: every read error is retried at the next tick
tickBody_errorRetried(w, r) ==
    LET seen == [w EXCEPT !.gets = Append(@, r)] IN
    CASE r.kind \in {"notfound", "error"} -> [seen EXCEPT !.pc = "select"]
      [] r.kind = "ready"    -> [seen EXCEPT !.pc = "done", !.url = r.url, !.err = NoError]
      [] r.kind = "notready" -> [seen EXCEPT !.pc = "select"]

\* the body of case <-ticker.C, after the Get has returned r
tickBody(w, r) ==
    LET seen == [w EXCEPT !.gets = Append(@, r)] IN
    CASE r.kind = "notfound" -> [seen EXCEPT !.pc = "select"]
      [] r.kind = "error"    -> [seen EXCEPT !.pc = "done", !.url = "", !.err = r.err]
      [] r.kind = "ready"    -> [seen EXCEPT !.pc = "done", !.url = r.url, !.err = NoError]
      [] r.kind = "notready" -> [seen EXCEPT !.pc = "select"]

\* case <-ctx.Done()
PollCancel ==
    /\ poll.pc = "select"
    /\ timer.ctxDone
    /\ poll' = [poll EXCEPT !.pc = "done", !.url = "", !.err = ErrCanceled]
    /\ UNCHANGED <<variant, cfg, ks, liveChanges, observeVars, deployVars, pureVars, timer, storeOps>>

\* mutant: the timeout case is taken without the timer having delivered
PollTimeout_early ==
    /\ poll.pc = "select"
    /\ poll' = [poll EXCEPT !.pc = "done", !.url = "", !.err = ErrTimeout]
    /\ UNCHANGED <<variant, cfg, ks, liveChanges, observeVars, deployVars, pureVars, timer, storeOps>>

\* mutant: the timer is made anew on every iteration and its case is never taken
PollTimeout_never ==
    /\ poll.pc = "select"
    /\ timer.timeoutFired
    /\ FALSE
    /\ UNCHANGED vars

\* case <-timeout
PollTimeout ==
    /\ poll.pc = "select"
    /\ timer.timeoutFired
    /\ poll' = [poll EXCEPT !.pc = "done", !.url = "", !.err = ErrTimeout]
    /\ UNCHANGED <<variant, cfg, ks, liveChanges, observeVars, deployVars, pureVars, timer, storeOps>>

\* case <-ticker.C: the tick is taken and the Get is sent
PollTick ==
    /\ poll.pc = "select"
    /\ timer.tickPending
    /\ poll' = [poll EXCEPT !.pc = "get"]
    /\ timer' = [timer EXCEPT !.tickPending = FALSE]
    /\ UNCHANGED <<variant, cfg, ks, liveChanges, observeVars, deployVars, pureVars, storeOps>>

\* the Get returns and the rest of the case runs
PollGet ==
    /\ poll.pc = "get"
    /\ \E r \in ReadOutcomes(ks.exists, ks.doc, timer.ctxDone) : poll' = tickBody(poll, r)
    /\ UNCHANGED <<variant, cfg, ks, liveChanges, observeVars, deployVars, pureVars, timer>>
    /\ storeOps' = storeOps \cup {StoreOp("Deploy", "get", "Service")}

\* time.After(5 * time.Minute) delivers
TimerFire ==
    /\ poll.pc \in {"select", "get"}
    /\ ~timer.timeoutFired
    /\ timer' = [timer EXCEPT !.timeoutFired = TRUE]
    /\ UNCHANGED <<variant, cfg, ks, liveChanges, observeVars, deployVars, pureVars, poll, storeOps>>

\* the ticker delivers; its channel holds one tick and drops the rest
Tick ==
    /\ poll.pc \in {"select", "get"}
    /\ ~timer.tickPending
    /\ Len(poll.gets) + (IF poll.pc = "get" THEN 1 ELSE 0) < MaxReads
    /\ timer' = [timer EXCEPT !.tickPending = TRUE]
    /\ UNCHANGED <<variant, cfg, ks, liveChanges, observeVars, deployVars, pureVars, poll, storeOps>>

\* the caller cancels a context that can be cancelled
Cancel ==
    /\ poll.pc \in {"select", "get"}
    /\ poll.ctx = "cancellable"
    /\ ~timer.ctxDone
    /\ timer' = [timer EXCEPT !.ctxDone = TRUE]
    /\ UNCHANGED <<variant, cfg, ks, liveChanges, observeVars, deployVars, pureVars, poll, storeOps>>

----------------------------------------------------------------------------
(* main and runDeploy *)

\* os.Args of the invocations that main does not send to runObserve
DeployArgs ==
    { <<"knative-deployer">>,
      <<"knative-deployer", "deploy">>,
      <<"knative-deployer", "rollback">> }

\* main: the subcommand, "deploy" when the argument is omitted
mainCmd(args) == IF Len(args) > 1 THEN args[2] ELSE "deploy"

ErrUnknownCommand == "unknown command"
ErrClient == "failed to get in-cluster config"
ErrApply == "failed to apply knative service"
ErrWrite == "failed to write termination message"

\* fmt.Errorf("failed to wait for service readiness: %w", err)
wrapWaitErr(err) == "failed to wait for service readiness: " \o err

IdleDeploy ==
    [pc |-> "idle", args |-> <<"knative-deployer">>, err |-> NoError,
     steps |-> <<>>, signalled |-> FALSE]

NoService == [present |-> FALSE, name |-> "", namespace |-> "", image |-> ""]

\* the Service document runDeploy builds from the configuration
buildService(c) ==
    [present |-> TRUE, name |-> c.FunctionName, namespace |-> c.FunctionNamespace,
     image |-> c.FunctionImage]

NoSink == Nil

\* writeTerminationMessage: json.Marshal(map[string]string{"url": url}), for a
\* url without characters that JSON escapes
terminationMessage(url) == "{\"url\":\"" \o url \o "\"}"

\* main, LoadEnv, getDynamicClient, the building of the document and the
\* server-side apply.  Everything before the apply is local to the process.
DeployStart ==
    /\ dep.pc = "idle"
    /\ mainCmd(dep.args) # "observe"
    /\ \E clientOk \in BOOLEAN, applyOk \in BOOLEAN :
         LET envErr == LoadEnv(cfg, dep.args) IN
         IF mainCmd(dep.args) # "deploy"
         THEN /\ dep' = [dep EXCEPT !.pc = "done", !.err = ErrUnknownCommand]
              /\ UNCHANGED <<ks, applied, poll, timer, storeOps>>
         ELSE IF envErr # NoError
         THEN /\ dep' = [dep EXCEPT !.pc = "done", !.err = envErr]
              /\ UNCHANGED <<ks, applied, poll, timer, storeOps>>
         ELSE IF ~clientOk
         THEN /\ dep' = [dep EXCEPT !.pc = "done", !.err = ErrClient,
                                    !.steps = <<"client">>]
              /\ UNCHANGED <<ks, applied, poll, timer, storeOps>>
         ELSE IF ~applyOk
         THEN /\ dep' = [dep EXCEPT !.pc = "done", !.err = ErrApply,
                                    !.steps = <<"client", "apply">>]
              /\ UNCHANGED <<ks, applied, poll, timer>>
              /\ storeOps' = storeOps \cup {StoreOp("Deploy", "apply", "Service")}
         ELSE /\ dep' = [dep EXCEPT !.pc = "poll", !.steps = <<"client", "apply">>]
              /\ ks' = IF ks.exists THEN ks ELSE [exists |-> TRUE, doc |-> NoStatusDoc]
              /\ applied' = buildService(cfg)
              /\ poll' = [IdlePoll EXCEPT !.pc = "select", !.ctx = "background"]
              /\ timer' = IdleTimer
              /\ storeOps' = storeOps \cup {StoreOp("Deploy", "apply", "Service")}
    /\ UNCHANGED <<variant, cfg, liveChanges, observeVars, sink, pureVars>>

\* mutant: the termination message is written whatever waitForReady returned
DeployFinish_alwaysWrites ==
    /\ dep.pc = "poll"
    /\ poll.pc = "done"
    /\ dep' = [dep EXCEPT !.pc = "done",
                          !.err = IF poll.err # NoError THEN wrapWaitErr(poll.err)
                                  ELSE NoError,
                          !.steps = @ \o <<"poll", "write">>]
    /\ sink' = terminationMessage(poll.url)
    /\ UNCHANGED <<variant, cfg, ks, liveChanges, observeVars, pollVars, applied, pureVars, storeOps>>

\* waitForReady has returned: wrap its error, or write the termination message
DeployFinish ==
    /\ dep.pc = "poll"
    /\ poll.pc = "done"
    /\ IF poll.err # NoError
       THEN /\ dep' = [dep EXCEPT !.pc = "done", !.err = wrapWaitErr(poll.err),
                                  !.steps = Append(@, "poll")]
            /\ UNCHANGED sink
       ELSE \E w \in {"ok", "notopened", "truncated"} :
              /\ dep' = [dep EXCEPT !.pc = "done",
                                    !.err = IF w = "ok" THEN NoError ELSE ErrWrite,
                                    !.steps = @ \o <<"poll", "write">>]
              /\ sink' = CASE w = "ok"        -> terminationMessage(poll.url)
                           [] w = "notopened" -> sink
                           [] w = "truncated" -> ""
    /\ UNCHANGED <<variant, cfg, ks, liveChanges, observeVars, pollVars, applied, pureVars, storeOps>>

\* The process receives a shutdown signal while it polls.  runDeploy installs
\* no handler and polls under context.Background(), so the Go runtime ends the
\* process; no deferred code and no error path runs.
Signal ==
    /\ dep.pc = "poll"
    /\ poll.pc \in {"select", "get"}
    /\ dep' = [dep EXCEPT !.pc = "killed", !.signalled = TRUE]
    /\ poll' = [poll EXCEPT !.pc = "killed"]
    /\ UNCHANGED <<variant, cfg, ks, liveChanges, observeVars, timer, applied, sink, pureVars, storeOps>>

----------------------------------------------------------------------------
(* A call of parseKnativeStatus on its own *)

IdleInterp == [pc |-> "idle", obj |-> NoStatusDoc,
               result |-> [isReady |-> FALSE, msg |-> "", url |-> ""]]

Interpret ==
    /\ interp.pc = "call"
    /\ interp' = [interp EXCEPT !.pc = "returned",
                                !.result = parseKnativeStatus(interp.obj)]
    /\ UNCHANGED <<variant, cfg, ks, liveChanges, observeVars, pollVars, deployVars, build, storeOps>>

----------------------------------------------------------------------------
(* The Builder's environment forwarding (runDeploy, "Add forwarded env vars") *)

Char(s, i) == SubSeq(s, i, i)

\* the characters unicode.IsSpace accepts, among those the model uses
IsSpace(ch) == ch \in {" ", "\t"}

\* strings.Split(s, ","): the pieces between the commas, empty ones included
RECURSIVE Split(_)
Split(s) ==
    LET commas == {i \in 1..Len(s) : Char(s, i) = ","} IN
    IF commas = {} THEN <<s>>
    ELSE LET i == CHOOSE c \in commas : \A d \in commas : c <= d IN
         <<SubSeq(s, 1, i - 1)>> \o Split(SubSeq(s, i + 1, Len(s)))

\* strings.TrimSpace(s): s without its leading and trailing white space
RECURSIVE TrimSpace(_)
TrimSpace(s) ==
    IF s = "" THEN s
    ELSE IF IsSpace(Char(s, 1)) THEN TrimSpace(SubSeq(s, 2, Len(s)))
    ELSE IF IsSpace(Char(s, Len(s))) THEN TrimSpace(SubSeq(s, 1, Len(s) - 1))
    ELSE s

\* os.Getenv: the value of the variable, "" when it is not set
Getenv(environ, name) ==
    IF name \in DOMAIN environ /\ environ[name] # Nil THEN environ[name] ELSE ""

\* the body of the loop over the pieces, from piece k on
RECURSIVE forwardFrom(_, _, _)
forwardFrom(pieces, k, environ) ==
    IF k > Len(pieces) THEN <<>>
    ELSE LET v == TrimSpace(pieces[k]) IN
         IF v = "" THEN forwardFrom(pieces, k + 1, environ)
         ELSE <<[name |-> v, value |-> Getenv(environ, v)]>>
                \o forwardFrom(pieces, k + 1, environ)

\* mutant: a variable that is not set is left out of the list
containerEnv_skipUnset(forwarded, environ) ==
    IF forwarded = "" THEN <<>>
    ELSE SelectSeq(forwardFrom(Split(forwarded), 1, environ), LAMBDA e : e.value # "")

\* containerEnv as runDeploy builds it from cfg.ForwardedEnvVars
containerEnv(forwarded, environ) ==
    IF forwarded = "" THEN <<>>
    ELSE forwardFrom(Split(forwarded), 1, environ)

IdleBuild == [pc |-> "idle", forwarded |-> "", environ |-> [n \in {} |-> Nil],
              env |-> <<>>]

\* runDeploy prepares the env vars of the container
BuildEnv ==
    /\ build.pc = "call"
    /\ build' = [build EXCEPT !.pc = "built",
                              !.env = containerEnv(build.forwarded, build.environ)]
    /\ UNCHANGED <<variant, cfg, ks, liveChanges, observeVars, pollVars, deployVars, interp, storeOps>>

----------------------------------------------------------------------------
(* Specification of the Observe flow *)

ObserveConfigs ==
    {[FunctionName |-> n, FunctionNamespace |-> "myns", FunctionImage |-> "myimg",
      FunctionBasePath |-> b] : n \in {"", "myfunc"}, b \in {"", "/base"}}

Init ==
    /\ variant \in Variants
    /\ cfg \in ObserveConfigs
    /\ variant = "part_000" => cfg.FunctionBasePath = ""
    /\ ks \in ServiceStates
    /\ kf \in TrackedStates
    /\ obs = [p \in Observers |-> FreshObserve]
    /\ passes = 0
    /\ liveChanges = 0
    /\ settled = FALSE
    /\ raced = FALSE
    /\ poll = IdlePoll
    /\ timer = IdleTimer
    /\ dep = IdleDeploy
    /\ applied = NoService
    /\ sink = NoSink
    /\ interp = IdleInterp
    /\ build = IdleBuild
    /\ storeOps = {}

Next ==
    \/ \E p \in Observers : ObserveStart(p)
    \/ \E p \in Observers : ObserveGetKf(p)
    \/ \E p \in Observers : ObservePatch(p)
    \/ LiveChange

Spec == Init /\ [][Next]_vars

----------------------------------------------------------------------------
(* Specification of the Readiness Poller: one call of waitForReady, by
   runDeploy (context.Background()) or by a caller that can cancel *)

ValidConfig ==
    [FunctionName |-> "myfunc", FunctionNamespace |-> "myns",
     FunctionImage |-> "myimg", FunctionBasePath |-> ""]

InitPoller ==
    /\ variant \in Variants
    /\ cfg = ValidConfig
    /\ ks \in ServiceStates
    /\ kf = TrackedAbsent
    /\ obs = [p \in Observers |-> FreshObserve]
    /\ passes = 0
    /\ liveChanges = 0
    /\ settled = FALSE
    /\ raced = FALSE
    /\ \E c \in {"background", "cancellable"} :
         poll = [IdlePoll EXCEPT !.pc = "select", !.ctx = c]
    /\ timer = IdleTimer
    /\ dep = IdleDeploy
    /\ applied = NoService
    /\ sink = NoSink
    /\ interp = IdleInterp
    /\ build = IdleBuild
    /\ storeOps = {}

NextPoller ==
    \/ PollCancel
    \/ PollTimeout
    \/ PollTick
    \/ PollGet
    \/ TimerFire
    \/ Tick
    \/ Cancel
    \/ LiveChange

SpecPoller == InitPoller /\ [][NextPoller]_vars

\* The timer delivers, a Get returns, and a select that keeps finding the
\* timeout ready takes it at some point (Go picks among the ready cases at
\* random).
SpecPollerFair ==
    /\ SpecPoller
    /\ WF_vars(TimerFire)
    /\ WF_vars(PollGet)
    /\ SF_vars(PollTimeout)

----------------------------------------------------------------------------
(* Specification of the Deploy flow: one invocation that main does not send
   to runObserve.  ctx.Done() of context.Background() never delivers, so
   PollCancel and Cancel are not steps of this flow. *)

DeployConfigs ==
    {[FunctionName |-> n, FunctionNamespace |-> ns, FunctionImage |-> i,
      FunctionBasePath |-> ""] :
        n \in {"", "myfunc"}, ns \in {"", "myns"}, i \in {"", "myimg"}}

InitDeploy ==
    /\ variant \in Variants
    /\ cfg \in DeployConfigs
    /\ ks \in ServiceStates
    /\ kf = TrackedAbsent
    /\ obs = [p \in Observers |-> FreshObserve]
    /\ passes = 0
    /\ liveChanges = 0
    /\ settled = FALSE
    /\ raced = FALSE
    /\ poll = IdlePoll
    /\ timer = IdleTimer
    /\ \E a \in DeployArgs : dep = [IdleDeploy EXCEPT !.args = a]
    /\ applied = NoService
    /\ sink = NoSink
    /\ interp = IdleInterp
    /\ build = IdleBuild
    /\ storeOps = {}

NextDeploy ==
    \/ DeployStart
    \/ PollTimeout
    \/ PollTick
    \/ PollGet
    \/ TimerFire
    \/ Tick
    \/ DeployFinish
    \/ Signal
    \/ LiveChange

SpecDeploy == InitDeploy /\ [][NextDeploy]_vars

----------------------------------------------------------------------------
(* Specification of main: one invocation of either flow, chosen by os.Args *)

MainArgs == DeployArgs \cup {ObserveArgs}

InitMain ==
    /\ variant \in Variants
    /\ cfg \in DeployConfigs
    /\ ks \in ServiceStates
    /\ \E a \in MainArgs :
         /\ dep = [IdleDeploy EXCEPT !.args = a]
         /\ kf \in IF mainCmd(a) = "observe" THEN TrackedStates ELSE {TrackedAbsent}
    /\ obs = [p \in Observers |-> FreshObserve]
    /\ passes = 0
    /\ liveChanges = 0
    /\ settled = FALSE
    /\ raced = FALSE
    /\ poll = IdlePoll
    /\ timer = IdleTimer
    /\ applied = NoService
    /\ sink = NoSink
    /\ interp = IdleInterp
    /\ build = IdleBuild
    /\ storeOps = {}

\* case "observe": main calls runObserve
MainObserve ==
    /\ mainCmd(dep.args) = "observe"
    /\ ObserveStart(1)

\* DeployStart is the other cases of main's switch
NextMain ==
    \/ MainObserve
    \/ ObserveGetKf(1)
    \/ ObservePatch(1)
    \/ DeployStart
    \/ PollTimeout
    \/ PollTick
    \/ PollGet
    \/ TimerFire
    \/ Tick
    \/ DeployFinish
    \/ LiveChange

SpecMain == InitMain /\ [][NextMain]_vars

----------------------------------------------------------------------------
(* Specification of the two flows together: a Deploy invocation runs while *)
(* Observe invocations come and go and the platform changes the Service    *)

\* the stores the invocations start on: no Service yet or a ready one, and a
\* tracked object an earlier pass has set to "Ready"
BothServices ==
    {ServiceAbsent,
     [exists |-> TRUE, doc |-> Doc(TRUE, "http://x", TRUE, <<Cond("Ready", "True", Nil)>>)]}

BothTracked ==
    {[exists |-> TRUE, object |-> TrackedObject("Ready", "http://y")]}

InitBoth ==
    /\ variant = "main"
    /\ cfg = [FunctionName |-> "myfunc", FunctionNamespace |-> "myns",
              FunctionImage |-> "myimg", FunctionBasePath |-> ""]
    /\ ks \in BothServices
    /\ kf \in BothTracked
    /\ obs = [p \in Observers |-> FreshObserve]
    /\ passes = 0
    /\ liveChanges = 0
    /\ settled = FALSE
    /\ raced = FALSE
    /\ poll = IdlePoll
    /\ timer = IdleTimer
    /\ dep = [IdleDeploy EXCEPT !.args = <<"knative-deployer", "deploy">>]
    /\ applied = NoService
    /\ sink = NoSink
    /\ interp = IdleInterp
    /\ build = IdleBuild
    /\ storeOps = {}

NextBoth ==
    \/ ObserveStart(1)
    \/ ObserveGetKf(1)
    \/ ObservePatch(1)
    \/ DeployStart
    \/ PollTimeout
    \/ PollTick
    \/ PollGet
    \/ TimerFire
    \/ Tick
    \/ DeployFinish
    \/ LiveChange

SpecBoth == InitBoth /\ [][NextBoth]_vars

----------------------------------------------------------------------------
(* Specification of the Status Interpreter: every status document in bounds *)

\* the entries a conditions list can hold: maps with or without each key, and
\* values that are not maps
CondEntries ==
    {Junk} \cup
    {Cond(t, st, m) : t \in {Nil, "Ready", "ConfigurationsReady"},
                      st \in {Nil, "True", "False"},
                      m \in {Nil, "RevisionFailed"}}

RECURSIVE CondLists(_)
CondLists(n) ==
    IF n = 0 THEN {<<>>}
    ELSE CondLists(n - 1) \cup
         {Append(l, e) : l \in {k \in CondLists(n - 1) : Len(k) = n - 1}, e \in CondEntries}

StatusDocs ==
    {NoStatusDoc}
    \cup {Doc(TRUE, u, FALSE, <<>>) : u \in {Nil, "http://x"}}
    \cup {Doc(TRUE, u, TRUE, l) : u \in {Nil, "http://x"}, l \in CondLists(MaxConds)}

InitInterp ==
    /\ variant = "main"
    /\ cfg = [FunctionName |-> "myfunc", FunctionNamespace |-> "myns",
              FunctionImage |-> "myimg", FunctionBasePath |-> ""]
    /\ ks = ServiceAbsent
    /\ kf = TrackedAbsent
    /\ obs = [p \in Observers |-> FreshObserve]
    /\ passes = 0
    /\ liveChanges = 0
    /\ settled = FALSE
    /\ raced = FALSE
    /\ poll = IdlePoll
    /\ timer = IdleTimer
    /\ dep = IdleDeploy
    /\ applied = NoService
    /\ sink = NoSink
    /\ \E d \in StatusDocs : interp = [IdleInterp EXCEPT !.pc = "call", !.obj = d]
    /\ build = IdleBuild
    /\ storeOps = {}

NextInterp == Interpret

SpecInterp == InitInterp /\ [][NextInterp]_vars

----------------------------------------------------------------------------
(* Specification of the Builder's env forwarding: every value in bounds *)

EnvAlphabet == {"A", "B", ",", " "}

RECURSIVE EnvStrings(_)
EnvStrings(n) ==
    IF n = 0 THEN {""}
    ELSE EnvStrings(n - 1) \cup
         {s \o c : s \in {t \in EnvStrings(n - 1) : Len(t) = n - 1}, c \in EnvAlphabet}

\* process environments: A and B are each set or not set
Environments == [{"A", "B"} -> {Nil, "1", "2"}]

InitBuilder ==
    /\ variant \in Variants
    /\ cfg = [FunctionName |-> "myfunc", FunctionNamespace |-> "myns",
              FunctionImage |-> "myimg", FunctionBasePath |-> ""]
    /\ ks = ServiceAbsent
    /\ kf = TrackedAbsent
    /\ obs = [p \in Observers |-> FreshObserve]
    /\ passes = 0
    /\ liveChanges = 0
    /\ settled = FALSE
    /\ raced = FALSE
    /\ poll = IdlePoll
    /\ timer = IdleTimer
    /\ dep = IdleDeploy
    /\ applied = NoService
    /\ sink = NoSink
    /\ interp = IdleInterp
    /\ \E f \in EnvStrings(MaxEnvLen), e \in Environments :
         build = [IdleBuild EXCEPT !.pc = "call", !.forwarded = f, !.environ = e]
    /\ storeOps = {}

NextBuilder == BuildEnv

SpecBuilder == InitBuilder /\ [][NextBuilder]_vars

----------------------------------------------------------------------------
(* Properties of the Observe flow *)

\* the pass has read both objects and taken its decision
Decided(p) == obs[p].kfGet = "ok"

\* the pass has issued its patch (whether or not the store accepted it)
Patched(p) == obs[p].pc = "done" /\ obs[p].kfPatches = 1

\* the base path runObserve appends to the url in the Ready detail
BasePath == IF variant = "main" THEN cfg.FunctionBasePath ELSE ""

\* C1 as stated: a pass that finds the live status ready with endpoint u while
\* the tracked state is not "Ready" decides needsUpdate, newState "Ready",
\* detail "Ready: " + u and url u, and its patch carries exactly these values.
C1_ReadyDetailIsUrl ==
    \A p \in Observers :
        (Decided(p) /\ obs[p].isReady /\ obs[p].currentState # "Ready") =>
            /\ obs[p].needsUpdate
            /\ obs[p].newState = "Ready"
            /\ obs[p].newDetail = "Ready: " \o obs[p].url
            /\ Patched(p) =>
                 /\ DOMAIN obs[p].patch = {"status.state", "status.url", "status.detail"}
                 /\ obs[p].patch["status.state"] = "Ready"
                 /\ obs[p].patch["status.url"] = obs[p].url
                 /\ obs[p].patch["status.detail"] = "Ready: " \o obs[p].url

\* C1 amended: as C1, with detail "Ready: " + u + FUNCTION_BASEPATH in
\* cmd/main.go (the older file has no base path and writes "Ready: " + u).
C1_ReadyTransition ==
    \A p \in Observers :
        (Decided(p) /\ obs[p].isReady /\ obs[p].currentState # "Ready") =>
            /\ obs[p].needsUpdate
            /\ obs[p].newState = "Ready"
            /\ obs[p].newDetail = "Ready: " \o obs[p].url \o BasePath
            /\ obs[p].pc \in {"patch", "done"}
            /\ obs[p].pc = "done" => obs[p].kfPatches = 1
            /\ Patched(p) =>
                 /\ DOMAIN obs[p].patch = {"status.state", "status.url", "status.detail"}
                 /\ obs[p].patch["status.state"] = "Ready"
                 /\ obs[p].patch["status.url"] = obs[p].url
                 /\ obs[p].patch["status.detail"] = "Ready: " \o obs[p].url \o BasePath

C1_Witness ==
    \E p \in Observers :
        /\ Patched(p) /\ obs[p].err = NoError
        /\ obs[p].isReady /\ obs[p].currentState = ""
        /\ obs[p].url = "http://x"
        /\ BasePath = "/base"
        /\ kf.object["status.state"] = "Ready"
        /\ kf.object["status.detail"] = "Ready: http://x/base"

\* C2: a pass that finds the tracked state "Ready" and the live status not
\* ready issues exactly one patch; the patch sets state "FunctionDeployed" and
\* its detail starts with "NotReady:".
C2_Degrade ==
    \A p \in Observers :
        (Decided(p) /\ ~obs[p].isReady /\ obs[p].currentState = "Ready") =>
            /\ obs[p].needsUpdate
            /\ obs[p].pc \in {"patch", "done"}
            /\ obs[p].pc = "patch" => obs[p].kfPatches = 0
            /\ obs[p].pc = "done" =>
                 /\ obs[p].kfPatches = 1
                 /\ "status.detail" \in DOMAIN obs[p].patch
                 /\ obs[p].patch["status.state"] = "FunctionDeployed"
                 /\ HasPrefix(obs[p].patch["status.detail"], "NotReady:")

C2_Witness ==
    \E p \in Observers :
        /\ Patched(p) /\ obs[p].err = NoError
        /\ ~obs[p].isReady /\ obs[p].currentState = "Ready"
        /\ obs[p].msg = "RevisionFailed"
        /\ kf.object["status.state"] = "FunctionDeployed"
        /\ HasPrefix(kf.object["status.detail"], "NotReady:")

\* C3: a pass that finds the tracked state other than "Ready" and the live
\* status not ready decides needsUpdate = FALSE and issues no patch, whatever
\* the reason and the urls; the step that takes this decision ends the pass
\* and leaves the tracked resource as it was.
C3_NoFlapCase(o) ==
    o.kfGet = "ok" /\ ~o.isReady /\ o.currentState # "Ready"

C3_NoFlap ==
    /\ [](\A p \in Observers :
            C3_NoFlapCase(obs[p]) =>
                /\ ~obs[p].needsUpdate
                /\ obs[p].pc = "done"
                /\ obs[p].err = NoError
                /\ obs[p].kfPatches = 0
                /\ obs[p].patch = EmptyPatch)
    /\ [][\A p \in Observers :
            (obs[p].pc = "getKf" /\ C3_NoFlapCase(obs'[p])) => kf' = kf]_vars

C3_Witness ==
    \E p \in Observers :
        /\ C3_NoFlapCase(obs[p]) /\ obs[p].pc = "done"
        /\ obs[p].currentState = "FunctionDeployed"
        /\ obs[p].msg = "RevisionFailed"
        /\ obs[p].url # obs[p].currentURL
        /\ passes > 1

\* the tracked status is where an Observe pass leaves it for this live status
Fixpoint ==
    /\ ks.exists
    /\ kf.exists
    /\ LET i == parseKnativeStatus(ks.doc) IN
       IF i.isReady
       THEN /\ kf.object["status.state"] = "Ready"
            /\ NestedString(kf.object["status.url"]) = i.url
       ELSE NestedString(kf.object["status.state"]) # "Ready"

\* C4: once a pass has completed (its patch, if any, applied), a pass started
\* after it against the unchanged live status decides needsUpdate = FALSE and
\* issues no patch.
C4_Idempotent ==
    \A p \in Observers :
        (Decided(p) /\ obs[p].startedSettled /\ settled) =>
            /\ ~obs[p].needsUpdate
            /\ obs[p].pc = "done"
            /\ obs[p].kfPatches = 0

C4_Witness ==
    \E p \in Observers :
        /\ Decided(p) /\ obs[p].startedSettled /\ settled
        /\ obs[p].pc = "done"
        /\ obs[p].isReady
        /\ kf.object["status.detail"] # "Created"
        /\ liveChanges = 0

\* C5: an invocation issues zero or one patch; it issues none when it decides
\* no transition and, for a ready live status, the live url is the tracked url;
\* the tracked resource changes only in the step that applies a patch.
C5_NoChangeCase(o) ==
    /\ o.kfGet = "ok"
    /\ o.newState = o.currentState
    /\ o.isReady => o.url = o.currentURL

C5_WriteCount ==
    /\ [](\A p \in Observers :
            /\ obs[p].kfPatches \in {0, 1}
            /\ obs[p].pc = "patch" => obs[p].kfPatches = 0
            /\ C5_NoChangeCase(obs[p]) =>
                 /\ ~obs[p].needsUpdate
                 /\ obs[p].pc = "done"
                 /\ obs[p].err = NoError
                 /\ obs[p].kfPatches = 0)
    /\ [][kf' # kf =>
            \E p \in Observers :
                /\ obs[p].pc = "patch"
                /\ obs'[p].pc = "done"
                /\ obs'[p].kfPatches = 1]_vars

C5_Witness ==
    \E p \in Observers :
        /\ C5_NoChangeCase(obs[p]) /\ obs[p].pc = "done"
        /\ obs[p].isReady
        /\ obs[p].currentState = "Ready"
        /\ obs[p].url = "http://x"

\* C6: a pass that finds the live status ready, the tracked state "Ready" and
\* the live url different from the tracked url issues a patch of state "Ready"
\* and the live url with no detail field; applying it sets the tracked url and
\* keeps the tracked detail.
C6_DriftCase(o) ==
    o.kfGet = "ok" /\ o.isReady /\ o.currentState = "Ready" /\ o.currentURL # o.url

C6_UrlDrift ==
    /\ [](\A p \in Observers :
            C6_DriftCase(obs[p]) =>
                /\ obs[p].needsUpdate
                /\ obs[p].pc \in {"patch", "done"}
                /\ obs[p].pc = "done" => obs[p].kfPatches = 1
                /\ Patched(p) =>
                     /\ DOMAIN obs[p].patch = {"status.state", "status.url"}
                     /\ obs[p].patch["status.state"] = "Ready"
                     /\ obs[p].patch["status.url"] = obs[p].url)
    /\ [][\A p \in Observers :
            (/\ C6_DriftCase(obs[p]) /\ obs[p].pc = "patch"
             /\ obs'[p].pc = "done" /\ obs'[p].err = NoError) =>
                /\ kf'.object["status.url"] = obs[p].url
                /\ kf'.object["status.state"] = "Ready"
                /\ kf'.object["status.detail"] = kf.object["status.detail"]]_vars

C6_Witness ==
    \E p \in Observers :
        /\ C6_DriftCase(obs[p]) /\ Patched(p) /\ obs[p].err = NoError
        /\ obs[p].currentURL = "http://y"
        /\ kf.object["status.url"] = "http://x"
        /\ kf.object["status.detail"] = "Created"

\* C7: the body of every patch holds status.state, status.url and, exactly when
\* the state changes, status.detail, and nothing else; no step changes any
\* other field of the tracked resource.
PatchedPaths == {"status.state", "status.url", "status.detail"}

C7_PatchFrame ==
    /\ [](\A p \in Observers :
            Patched(p) =>
                /\ {"status.state", "status.url"} \subseteq DOMAIN obs[p].patch
                /\ DOMAIN obs[p].patch \subseteq PatchedPaths
                /\ ("status.detail" \in DOMAIN obs[p].patch)
                      <=> (obs[p].newState # obs[p].currentState))
    /\ [][/\ kf'.exists = kf.exists
          /\ \A f \in TrackedPaths \ PatchedPaths : kf'.object[f] = kf.object[f]]_vars

C7_Witness ==
    \E p \in Observers :
        /\ Patched(p) /\ obs[p].err = NoError
        /\ "status.detail" \in DOMAIN obs[p].patch
        /\ kf.object["status.detail"] # "Created"
        /\ kf.object["spec"] = "spec-v1"
        /\ kf.object["status.conditions"] = "conditions-v1"

\* C8: when the Get of the Service returns not-found, the invocation returns
\* nil (exit code 0) without having read or patched the tracked resource, which
\* is unchanged.
C8_ServiceNotFound ==
    /\ [](\A p \in Observers :
            obs[p].ksGet = "notfound" =>
                /\ obs[p].pc = "done"
                /\ obs[p].err = NoError
                /\ ExitCode(obs[p].err) = 0
                /\ obs[p].kfGet = ""
                /\ obs[p].kfReads = 0
                /\ obs[p].kfPatches = 0)
    /\ [][\A p \in Observers :
            (passes' # passes /\ obs'[p].ksGet = "notfound") => kf' = kf]_vars

C8_Witness ==
    \E p \in Observers :
        /\ obs[p].ksGet = "notfound" /\ obs[p].pc = "done"
        /\ ~ks.exists
        /\ kf.exists
        /\ kf.object["status.state"] = "Ready"

\* C9: after Observe invocations have raced, one pass that runs alone against
\* a live status that stays unchanged leaves the tracked status at the fixpoint
\* for that live status ("Ready" with the live url when live is ready, not
\* "Ready" when it is not), and every pass started after it issues no patch.
C9_Convergence ==
    settled =>
        /\ Fixpoint
        /\ \A p \in Observers :
              (Decided(p) /\ obs[p].startedSettled) =>
                  (~obs[p].needsUpdate /\ obs[p].kfPatches = 0)

C9_Witness ==
    /\ raced
    /\ settled
    /\ liveChanges = 1
    /\ \E p \in Observers :
          Decided(p) /\ obs[p].startedSettled /\ obs[p].pc = "done"

----------------------------------------------------------------------------
(* Properties of the Readiness Poller *)

AllNotFound(gets) == \A i \in 1..Len(gets) : gets[i].kind = "notfound"

\* C10: a read that fails with not-found never ends waitForReady, which goes
\* back to its select; if every read returned not-found, waitForReady ends
\* only by the timeout (or by cancellation), and never returns not-found.
C10_NotFoundContinues ==
    /\ [](poll.pc = "done" =>
            /\ poll.err # ErrNotFound
            /\ AllNotFound(poll.gets) =>
                 /\ poll.url = ""
                 /\ poll.err \in {ErrTimeout, ErrCanceled}
                 /\ ~timer.ctxDone => poll.err = ErrTimeout)
    /\ [][(/\ poll.pc = "get"
            /\ Len(poll'.gets) = Len(poll.gets) + 1
            /\ poll'.gets[Len(poll'.gets)].kind = "notfound") =>
                (poll'.pc = "select" /\ poll'.err = NoError)]_vars

C10_Witness ==
    /\ poll.pc = "done"
    /\ Len(poll.gets) >= 2
    /\ AllNotFound(poll.gets)
    /\ ~timer.ctxDone
    /\ poll.err = ErrTimeout

\* a read has just returned: the step appended it to poll.gets
ReadReturned == poll.pc = "get" /\ Len(poll'.gets) = Len(poll.gets) + 1

LastGet(w) == w.gets[Len(w.gets)]

\* C11 as stated: once the timeout has fired, waitForReady starts no further
\* read, also when a tick is pending at that moment, and returns neither
\* success nor a read error.
C11_HardTimeout ==
    [][timer.timeoutFired =>
         /\ ~(poll.pc = "select" /\ poll'.pc = "get")
         /\ (poll.pc # "done" /\ poll'.pc = "done") =>
               poll'.err \in {ErrTimeout, ErrCanceled}]_vars

\* C11 amended: waitForReady returns the timeout failure only after the timeout
\* has fired, and a select that finds the timeout ready with no tick pending
\* and no cancellation returns it; the select gives the timeout no priority
\* over a pending tick or a read in flight.
C11_Timeout ==
    /\ []((poll.pc = "done" /\ poll.err = ErrTimeout) =>
            (timer.timeoutFired /\ poll.url = ""))
    /\ [][(/\ poll.pc = "select" /\ timer.timeoutFired
           /\ ~timer.tickPending /\ ~timer.ctxDone
           /\ poll' # poll) =>
              (poll'.pc = "done" /\ poll'.err = ErrTimeout /\ poll'.gets = poll.gets)]_vars

C11_Witness ==
    /\ poll.pc = "done"
    /\ poll.err = ErrTimeout
    /\ timer.timeoutFired
    /\ timer.tickPending
    /\ poll.gets = <<>>

\* C12: waitForReady returns success only when its last read was interpreted
\* ready, and then returns the url of that read; no read before it was ready,
\* and a read interpreted not-ready sends the poller back to its select.
C12_Success ==
    /\ []((poll.pc = "done" /\ poll.err = NoError) =>
            /\ Len(poll.gets) > 0
            /\ LastGet(poll).kind = "ready"
            /\ parseKnativeStatus(LastGet(poll).obj).isReady
            /\ poll.url = parseKnativeStatus(LastGet(poll).obj).url
            /\ \A i \in 1..(Len(poll.gets) - 1) : poll.gets[i].kind # "ready")
    /\ []((poll.pc = "done" /\ poll.err # NoError) => poll.url = "")
    /\ [][(ReadReturned /\ LastGet(poll').kind = "notready") =>
            (poll'.pc = "select" /\ poll'.err = NoError)]_vars

C12_Witness ==
    /\ poll.pc = "done"
    /\ poll.err = NoError
    /\ Len(poll.gets) >= 2
    /\ poll.gets[1].kind = "notready"
    /\ poll.url = "http://x"

\* C13: a read that fails with an error other than not-found is the last read
\* of waitForReady, which returns that same error at once.
C13_FatalRead ==
    /\ [](\A i \in 1..Len(poll.gets) :
            poll.gets[i].kind = "error" =>
                /\ i = Len(poll.gets)
                /\ poll.pc = "done"
                /\ poll.err = poll.gets[i].err
                /\ poll.url = "")
    /\ [][(ReadReturned /\ LastGet(poll').kind = "error") => poll'.pc = "done"]_vars

C13_Witness ==
    /\ poll.pc = "done"
    /\ poll.err = ErrGet
    /\ ~timer.timeoutFired
    /\ Len(poll.gets) >= 2
    /\ poll.gets[1].kind = "notfound"

\* C15: with a timer that delivers and reads that return, every call of
\* waitForReady returns, with an endpoint, the timeout failure, a cancellation
\* failure or the error of a read.
PollOutcomes == {NoError, ErrTimeout, ErrCanceled, ErrGet}

C15_Terminates ==
    /\ <>(poll.pc = "done")
    /\ [](poll.pc = "done" =>
            /\ poll.err \in PollOutcomes
            /\ poll.err = NoError <=> (Len(poll.gets) > 0 /\ LastGet(poll).kind = "ready"))

C15_Witness ==
    /\ poll.pc = "done"
    /\ poll.err = ErrTimeout
    /\ Len(poll.gets) >= 2
    /\ \A i \in 1..Len(poll.gets) : poll.gets[i].kind \in {"notfound", "notready"}
    /\ \E i \in 1..Len(poll.gets) : poll.gets[i].kind = "notready"

----------------------------------------------------------------------------
(* Properties of the Deploy flow *)

DeployEnded == dep.pc \in {"done", "killed"}

\* C14 (its part on Deploy): a Deploy invocation that receives a shutdown
\* signal while it polls ends with the cancellation failure of waitForReady.
C14_DeployCancelled ==
    (dep.signalled /\ DeployEnded) =>
        (dep.pc = "done" /\ dep.err = wrapWaitErr(ErrCanceled))

IsPrefix(a, b) == Len(a) <= Len(b) /\ SubSeq(b, 1, Len(a)) = a

\* C16: the steps of a Deploy invocation are apply, poll, write in this order;
\* the sink is written only after the apply succeeded and waitForReady returned
\* an endpoint e, and a write that succeeds leaves {"url": e}; when the apply
\* fails or waitForReady returns an error, the sink is not written, the
\* invocation exits non-zero and no step after the apply touches the Service.
C16_DeployOrder ==
    /\ [](IsPrefix(dep.steps, <<"client", "apply", "poll", "write">>))
    /\ [](sink # NoSink =>
            /\ dep.pc = "done"
            /\ dep.steps = <<"client", "apply", "poll", "write">>
            /\ applied = buildService(cfg)
            /\ poll.pc = "done" /\ poll.err = NoError
            /\ LastGet(poll).kind = "ready")
    /\ []((dep.pc = "done" /\ dep.err = NoError) =>
            /\ sink = terminationMessage(poll.url)
            /\ poll.url = LastGet(poll).url)
    /\ []((dep.pc = "done" /\ (dep.err = ErrApply \/ poll.err # NoError)) =>
            /\ sink = NoSink
            /\ ExitCode(dep.err) = 1
            /\ "write" \notin {dep.steps[i] : i \in 1..Len(dep.steps)}
            /\ dep.err = ErrApply <=> ~applied.present
            /\ poll.err # NoError =>
                 (dep.err = wrapWaitErr(poll.err) /\ applied = buildService(cfg)))
    /\ [][dep.pc # "idle" =>
            /\ applied' = applied
            /\ ks' # ks => liveChanges' # liveChanges]_vars

C16_Witness ==
    /\ dep.pc = "done"
    /\ dep.err = wrapWaitErr(ErrTimeout)
    /\ dep.steps = <<"client", "apply", "poll">>
    /\ applied.present /\ applied.image = "myimg"
    /\ ks.exists
    /\ sink = NoSink

\* C17: a Deploy invocation (explicit "deploy" or no argument) with
\* FUNCTION_NAME, FUNCTION_NAMESPACE or FUNCTION_IMAGE missing fails with a
\* configuration error before a client is created and before any apply.
ConfigErrors ==
    {"FUNCTION_NAME is required", "FUNCTION_NAMESPACE is required",
     "FUNCTION_IMAGE is required for deploy"}

C17_ConfigBeforeIO ==
    (/\ dep.pc # "idle"
     /\ mainCmd(dep.args) = "deploy"
     /\ "" \in {cfg.FunctionName, cfg.FunctionNamespace, cfg.FunctionImage}) =>
        /\ dep.pc = "done"
        /\ dep.err \in ConfigErrors
        /\ dep.steps = <<>>
        /\ ~applied.present

----------------------------------------------------------------------------
(* Properties of the Status Interpreter *)

\* the indices of the entries that are maps with type "Ready"
ReadyEntries(cs) == {i \in DOMAIN cs : cs[i].isMap /\ cs[i].type = "Ready"}

\* the first of them in list order
FirstReady(cs) == CHOOSE i \in ReadyEntries(cs) : \A j \in ReadyEntries(cs) : i <= j

Result(isReady, msg, url) == [isReady |-> isReady, msg |-> msg, url |-> url]

Returned == interp.pc = "returned"

\* C18: for every status document parseKnativeStatus returns (false, "No
\* status", "") without a status block; otherwise, with url the status url or
\* "", (false, "No conditions", url) without a conditions list; otherwise the
\* first entry that is a map of type "Ready" decides: (true, "", url) when its
\* status is "True", (false, its message stringified, url) when not; and
\* (false, "Ready condition not found", url) when there is no such entry.
C18_InterpreterRule ==
    Returned =>
        LET obj == interp.obj
            url == IF obj.url = Nil THEN "" ELSE obj.url
            cs == obj.conditions
        IN  interp.result =
              IF ~obj.hasStatus THEN Result(FALSE, "No status", "")
              ELSE IF ~obj.hasConditions THEN Result(FALSE, "No conditions", url)
              ELSE IF ReadyEntries(cs) = {}
                   THEN Result(FALSE, "Ready condition not found", url)
              ELSE IF cs[FirstReady(cs)].status = "True" THEN Result(TRUE, "", url)
              ELSE Result(FALSE, Stringify(cs[FirstReady(cs)].message), url)

\* a call returned on a list whose first Ready entry comes after an entry that
\* is not a map, is not "True" and has no message
C18_Witness ==
    /\ Returned
    /\ interp.obj.hasConditions
    /\ Len(interp.obj.conditions) = 2
    /\ ~interp.obj.conditions[1].isMap
    /\ interp.obj.conditions[2] = Cond("Ready", "False", Nil)
    /\ interp.obj.url = "http://x"
    /\ interp.result = Result(FALSE, "<nil>", "http://x")

\* C19 as stated: a list with a Ready entry of status "True" gives (true, "",
\* url) whatever else it holds and in whatever order, and a list with a Ready
\* entry of another status gives (false, that entry's message, url).
C19_OrderIndependent ==
    (Returned /\ interp.obj.hasStatus /\ interp.obj.hasConditions) =>
        LET cs == interp.obj.conditions
            url == NestedString(interp.obj.url)
        IN  /\ (\E i \in ReadyEntries(cs) : cs[i].status = "True") =>
                    interp.result = Result(TRUE, "", url)
            /\ \A i \in ReadyEntries(cs) :
                    cs[i].status # "True" =>
                        interp.result = Result(FALSE, Stringify(cs[i].message), url)

\* C19: a list whose Ready entries all have status "True" (and that has one)
\* gives (true, "", url) whatever its other entries and their order; a list
\* whose Ready entries all have another status gives (false, the stringified
\* message of the first of them, url); when both kinds are present the first
\* Ready entry in list order decides.
C19_FirstReadyDecides ==
    (Returned /\ interp.obj.hasStatus /\ interp.obj.hasConditions
              /\ ReadyEntries(interp.obj.conditions) # {}) =>
        LET cs == interp.obj.conditions
            url == NestedString(interp.obj.url)
            R == ReadyEntries(cs)
            first == cs[FirstReady(cs)]
        IN  /\ (\A i \in R : cs[i].status = "True") =>
                    interp.result = Result(TRUE, "", url)
            /\ (\A i \in R : cs[i].status # "True") =>
                    interp.result = Result(FALSE, Stringify(first.message), url)
            /\ interp.result.isReady = (first.status = "True")
            /\ ~interp.result.isReady => interp.result.msg = Stringify(first.message)
            /\ interp.result.url = url

\* a call returned not ready on a list that holds a Ready "True" entry after
\* a Ready "False" one
C19_Witness ==
    /\ Returned
    /\ interp.obj.hasConditions
    /\ interp.obj.conditions =
           <<Cond("Ready", "False", "RevisionFailed"), Cond("Ready", "True", Nil)>>
    /\ interp.result.isReady = FALSE
    /\ interp.result.msg = "RevisionFailed"

----------------------------------------------------------------------------
(* Properties of the two flows together *)

ErrGetKs == "failed to get knative service"
ErrGetKf == "failed to get kdex function"
ErrPatchKf == "failed to patch kdex function status"

\* the invocation has returned an error: exit code 1
Failed(err) == err # NoError /\ ExitCode(err) = 1

\* a read of the poller that found no Service is followed by the next select;
\* a poller whose reads all found no Service fails with the timeout only
PollNotFoundNonFatal ==
    /\ [][(ReadReturned /\ LastGet(poll').kind = "notfound") =>
              (poll'.pc = "select" /\ poll'.err = NoError)]_vars
    /\ []((poll.pc = "done" /\ \A i \in DOMAIN poll.gets : poll.gets[i].kind = "notfound") =>
              poll.err = ErrTimeout)

\* Observe's read of the Service finding nothing ends the pass with exit code 0
ServiceNotFoundNonFatal ==
    [](obs[1].ksGet = "notfound" =>
          (obs[1].pc = "done" /\ obs[1].err = NoError /\ ExitCode(obs[1].err) = 0))

\* every other read error, every apply error and every patch error makes the
\* invocation return an error, and no store write follows it
OtherErrorsFatal ==
    /\ [](obs[1].ksGet = "error" =>
             (/\ obs[1].pc = "done" /\ obs[1].err = ErrGetKs /\ Failed(obs[1].err)
              /\ obs[1].kfReads = 0 /\ obs[1].kfPatches = 0))
    /\ [](obs[1].kfGet = "error" =>
             (/\ obs[1].pc = "done" /\ obs[1].err = ErrGetKf /\ Failed(obs[1].err)
              /\ obs[1].kfPatches = 0))
    /\ [][(obs[1].pc = "patch" /\ obs'[1].pc = "done" /\ kf' = kf) =>
              (obs'[1].err = ErrPatchKf /\ Failed(obs'[1].err))]_vars
    /\ [][(obs[1].pc = "done" /\ obs[1].err # NoError) => kf' = kf]_vars
    /\ []((poll.gets # <<>> /\ LastGet(poll).kind = "error") =>
             (/\ poll.pc = "done" /\ poll.err = LastGet(poll).err
              /\ dep.pc = "done" =>
                    (/\ dep.err = wrapWaitErr(LastGet(poll).err) /\ Failed(dep.err)
                     /\ sink = NoSink)))
    /\ []((dep.pc = "done" /\ dep.steps = <<"client", "apply">>) =>
             (/\ dep.err = ErrApply /\ Failed(dep.err)
              /\ ~applied.present /\ poll = IdlePoll /\ sink = NoSink))
    /\ [][(dep.pc = "done" /\ dep.err # NoError) =>
              (applied' = applied /\ sink' = sink /\ poll' = poll)]_vars

\* C20 as stated: a not-found result of any read of either flow (the poller's
\* read of the Service, Observe's read of the Service, Observe's read of the
\* tracked object) does not make the invocation fail; every other read error
\* and every apply or patch error makes it return an error (exit code 1) with
\* no later store write.
C20_NotFoundNonFatal ==
    /\ PollNotFoundNonFatal
    /\ ServiceNotFoundNonFatal
    /\ [](obs[1].kfGet = "notfound" => obs[1].err = NoError)
    /\ OtherErrorsFatal

\* C20: a not-found result is non-fatal for the poller's read of the Service
\* and for Observe's read of the Service; a not-found result of Observe's read
\* of the tracked object is fatal like every other read error and every apply
\* or patch error: the invocation returns an error (exit code 1) and makes no
\* later store write.
C20_ErrorClasses ==
    /\ PollNotFoundNonFatal
    /\ ServiceNotFoundNonFatal
    /\ [](obs[1].kfGet = "notfound" =>
             (/\ obs[1].pc = "done" /\ obs[1].err = ErrGetKf /\ Failed(obs[1].err)
              /\ obs[1].kfPatches = 0 /\ obs[1].patch = EmptyPatch))
    /\ OtherErrorsFatal

\* an Observe invocation that read the Service and then found no tracked
\* object has returned the read error
C20_Witness ==
    /\ obs[1].ksGet = "ok"
    /\ obs[1].kfGet = "notfound"
    /\ ~kf.exists
    /\ obs[1].pc = "done"
    /\ obs[1].err = ErrGetKf

----------------------------------------------------------------------------
(* Properties of the degrade, of the patched url and of the tracked state *)

\* the step in which pass p has its patch accepted by the store
PatchApplied(p) ==
    obs[p].pc = "patch" /\ obs'[p].pc = "done" /\ obs'[p].err = NoError

TrackedState(k) == k.object["status.state"]

\* C23: a pass that degrades the tracked state from "Ready" to
\* "FunctionDeployed" writes the detail "NotReady: " followed by the reason the
\* interpreter returned in that pass.
C23_DegradeReason ==
    \A p \in Observers :
        (Patched(p) /\ ~obs[p].isReady /\ obs[p].currentState = "Ready") =>
            /\ "status.detail" \in DOMAIN obs[p].patch
            /\ obs[p].patch["status.detail"] = "NotReady: " \o obs[p].msg

\* C24: every patch of a pass, the degrade patch included, carries as
\* status.url the url the pass extracted from the live status, the empty
\* string included, and the step that applies it leaves the tracked url equal
\* to that url.
C24_PatchedUrl ==
    /\ [](\A p \in Observers :
            Patched(p) =>
                /\ "status.url" \in DOMAIN obs[p].patch
                /\ obs[p].patch["status.url"] = obs[p].url)
    /\ [][\A p \in Observers :
            PatchApplied(p) => kf'.object["status.url"] = obs[p].url]_vars

\* a degrade patch has replaced the tracked url "http://y" by the empty url of
\* a live object without a status block
C24_Witness ==
    \E p \in Observers :
        /\ Patched(p) /\ obs[p].err = NoError
        /\ ~obs[p].isReady /\ obs[p].msg = "No status"
        /\ obs[p].currentState = "Ready"
        /\ obs[p].currentURL = "http://y"
        /\ obs[p].url = ""
        /\ kf.object["status.url"] = ""
        /\ kf.object["status.state"] = "FunctionDeployed"

\* C25: every change of the tracked state gives "Ready" or "FunctionDeployed";
\* a patch writes "FunctionDeployed" only in a pass that read the state
\* "Ready" (and was not ready), "Ready" only in a pass interpreted ready; a
\* not-ready pass that read another state issues no patch, and no not-ready
\* pass has a patch applied while the tracked state is a reserved value.
C25_TrackedStates ==
    /\ [][TrackedState(kf') # TrackedState(kf) =>
              TrackedState(kf') \in {"Ready", "FunctionDeployed"}]_vars
    /\ [](\A p \in Observers :
            Patched(p) =>
                /\ obs[p].patch["status.state"] \in {"Ready", "FunctionDeployed"}
                /\ obs[p].patch["status.state"] = "FunctionDeployed" =>
                      (obs[p].currentState = "Ready" /\ ~obs[p].isReady)
                /\ obs[p].patch["status.state"] = "Ready" => obs[p].isReady)
    /\ [](\A p \in Observers :
            (Decided(p) /\ ~obs[p].isReady /\ obs[p].currentState # "Ready") =>
                (obs[p].pc = "done" /\ obs[p].kfPatches = 0))
    /\ [][\A p \in Observers :
            (PatchApplied(p) /\ ~obs[p].isReady) =>
                TrackedState(kf) \in {"Ready", "FunctionDeployed"}]_vars

\* a not-ready pass has ended on a reserved state and left it in place
C25_Witness ==
    \E p \in Observers :
        /\ Decided(p) /\ obs[p].pc = "done"
        /\ ~obs[p].isReady
        /\ obs[p].currentState = "Pending"
        /\ obs[p].kfPatches = 0
        /\ TrackedState(kf) = "Pending"

----------------------------------------------------------------------------
(* Properties of the Builder's env forwarding *)

\* the positions at which a piece of the comma-separated value starts
PieceStarts(s) == {1} \cup {i + 1 : i \in {j \in 1..Len(s) : Char(s, j) = ","}}

\* the end of the piece that starts at a: before the next comma, or the end
PieceEnd(s, a) ==
    LET after == {j \in a..Len(s) : Char(s, j) = ","} IN
    IF after = {} THEN Len(s) ELSE (CHOOSE j \in after : \A k \in after : j <= k) - 1

\* the positions of the piece that hold something else than white space
Inked(s, a) == {j \in a..PieceEnd(s, a) : Char(s, j) \notin {" ", "\t"}}

\* the pieces that are not empty after trimming
Surviving(s) == {a \in PieceStarts(s) : Inked(s, a) # {}}

Least(S) == CHOOSE x \in S : \A y \in S : x <= y
Greatest(S) == CHOOSE x \in S : \A y \in S : y <= x

Built == build.pc = "built"

\* C22: the env list holds, in list order and with nothing else, one {name,
\* value} pair per piece of the comma-separated FORWARDED_ENV_VARS value that
\* is not empty after trimming white space: the name is the trimmed piece and
\* the value is the process environment's value of that name, the empty string
\* when the variable is not set.
C22_EnvForwarding ==
    Built =>
        LET s == build.forwarded
            S == Surviving(s)
        IN  /\ Len(build.env) = Cardinality(S)
            /\ \A a \in S :
                 LET k == Cardinality({b \in S : b <= a})
                     name == SubSeq(s, Least(Inked(s, a)), Greatest(Inked(s, a)))
                 IN  /\ build.env[k].name = name
                     /\ build.env[k].value =
                          (IF name \in {"A", "B"} /\ build.environ[name] # Nil
                           THEN build.environ[name] ELSE "")

\* scenario B: "A, ,B" with A=1 and B=2 gives [{A,1},{B,2}]
C22_Witness ==
    /\ Built
    /\ build.forwarded = "A, ,B"
    /\ build.environ["A"] = "1" /\ build.environ["B"] = "2"
    /\ build.env = <<[name |-> "A", value |-> "1"], [name |-> "B", value |-> "2"]>>

----------------------------------------------------------------------------
(* Ownership of the two records *)

\* a step of the Deploy invocation: of runDeploy or of its waitForReady
DeployStep == dep' # dep \/ poll' # poll

\* a step of an Observe invocation: its start, its read of the tracked object
\* or its patch
ObserveStep ==
    \/ passes' # passes
    \/ \E p \in Observers : obs[p].pc \in {"getKf", "patch"} /\ obs'[p].pc # obs[p].pc

\* C21: the tracked status is written only by Observe and the Service only by
\* Deploy: over all interleavings, every request Deploy sends is an apply or a
\* get of the Service, every request Observe sends is a get of the Service or
\* a get or patch of the tracked object; no step of Deploy changes the tracked
\* object, no step of Observe changes the Service or the applied document,
\* the tracked object changes only in the patch step of a pass and the applied
\* document only in the apply step of Deploy.
C21_Ownership ==
    /\ [](\A o \in storeOps :
            /\ o.flow = "Deploy" =>
                  (o.resource = "Service" /\ o.verb \in {"apply", "get"})
            /\ o.flow = "Observe" =>
                  \/ (o.resource = "Service" /\ o.verb = "get")
                  \/ (o.resource = "KDexFunction" /\ o.verb \in {"get", "patch"}))
    /\ [][DeployStep => kf' = kf]_vars
    /\ [][ObserveStep => (ks' = ks /\ applied' = applied)]_vars
    /\ [][kf' # kf => \E p \in Observers : PatchApplied(p)]_vars
    /\ [][applied' # applied => (dep.pc = "idle" /\ dep'.pc = "poll")]_vars

\* an Observe pass has patched the tracked object while the Deploy invocation
\* polls the Service it applied, and both flows have sent all their requests
C21_Witness ==
    /\ dep.pc = "poll"
    /\ poll.gets # <<>>
    /\ applied.present
    /\ Patched(1) /\ obs[1].err = NoError
    /\ storeOps = {StoreOp("Deploy", "apply", "Service"),
                   StoreOp("Deploy", "get", "Service"),
                   StoreOp("Observe", "get", "Service"),
                   StoreOp("Observe", "get", "KDexFunction"),
                   StoreOp("Observe", "patch", "KDexFunction")}

====
